---- MODULE Spec2Model ----
(***************************************************************************)
(* ZOF Solver: the six root-finding methods of ZOFSolver (src/ZOF_CLI.py   *)
(* and its copy in src/app.py), the solver object's iteration_data field,  *)
(* and the callers that share one solver object.                           *)
(*                                                                         *)
(* Numbers.  A Python float is an IEEE-754 binary64: sign, 53-bit          *)
(* significand, binary exponent, every +, -, *, / rounded to nearest,      *)
(* ties to even.  The model keeps exactly that: a float is a record        *)
(* [s, m, e] standing for s * m * 2^e with m a 53-bit natural held in      *)
(* 14-bit limbs (TLC's integers are 32 bits wide), and every operation     *)
(* computes the exact result and rounds it.  The exponent is unbounded:    *)
(* overflow to inf and gradual underflow are outside the inputs used.      *)
(***************************************************************************)
EXTENDS Integers, Sequences, FiniteSets, TLC

----------------------------------------------------------------------------
(* The state: the solver object, its lists, and the calls under way.       *)

VARIABLES
    heap,            \* the list objects: heap[n] is the records of list n
    iteration_data,  \* self.iteration_data: the list the solver object refers to
    frame,           \* frame[p]: call p's position, arguments q and locals l
    ret              \* ret[p]: what call p handed its caller

vars == <<heap, iteration_data, frame, ret>>

----------------------------------------------------------------------------
(* The arithmetic unit.  Every operation of the two libraries below that  *)
(* builds on others is reached through Arith, one recursive operator, so  *)
(* that an expression nesting many of them stays small when TLC expands  *)
(* it.  Arith evaluates the operands a before the operation, where TLC    *)
(* would evaluate each where the operation first uses it.                 *)

RECURSIVE Arith(_, _)

BnAdd(a, b) == Arith("BnAdd", <<a, b>>)
BnSub(a, b) == Arith("BnSub", <<a, b>>)
BnCmp(a, b) == Arith("BnCmp", <<a, b>>)
BnToInt(a) == Arith("BnToInt", <<a>>)
BnBitLen(a) == Arith("BnBitLen", <<a>>)
BnMulSmall(a, k) == Arith("BnMulSmall", <<a, k>>)
BnDivSmall(a, k) == Arith("BnDivSmall", <<a, k>>)
FCmp(x, y) == Arith("FCmp", <<x, y>>)
BnShl(a, n) == Arith("BnShl", <<a, n>>)
BnShr(a, n) == Arith("BnShr", <<a, n>>)
BnDivLimb(r, b, d) == Arith("BnDivLimb", <<r, b, d>>)
BnDivMod(a, b) == Arith("BnDivMod", <<a, b>>)
BnRoundDiv(a, b) == Arith("BnRoundDiv", <<a, b>>)
BnMul(a, b) == Arith("BnMul", <<a, b>>)
FRound(s, n, e) == Arith("FRound", <<s, n, e>>)
FromInt(n) == Arith("FromInt", <<n>>)
FAddAligned(x, y) == Arith("FAddAligned", <<x, y>>)
FAdd(x, y) == Arith("FAdd", <<x, y>>)
FMul(x, y) == Arith("FMul", <<x, y>>)
FQuot(s, n, d, e) == Arith("FQuot", <<s, n, d, e>>)
FDiv(x, y) == Arith("FDiv", <<x, y>>)
FCube(x) == Arith("FCube", <<x>>)
Ratio(n, d) == Arith("Ratio", <<n, d>>)
round(x, ndigits) == Arith("round", <<x, ndigits>>)
format_e(x, p) == Arith("format_e", <<x, p>>)
Code(method, pc, q, l, data) == Arith("Code", <<method, pc, q, l, data>>)
func(func_str, x) == Arith("func", <<func_str, x>>)
derivative(func_str, x) == Arith("derivative", <<func_str, x>>)

----------------------------------------------------------------------------
(* Natural numbers of any size: little-endian sequences of limbs, no       *)
(* leading zero limb, zero is << >>.                                       *)

LimbBits == 14

Base == 2^LimbBits

RECURSIVE BitLenInt(_)
BitLenInt(n) == IF n = 0 THEN 0 ELSE 1 + BitLenInt(n \div 2)

RECURSIVE Pow2(_)
Pow2(n) == IF n = 0 THEN 1 ELSE 2 * Pow2(n - 1)

RECURSIVE BnNorm(_)
BnNorm(a) ==
    IF a = << >> THEN << >>
    ELSE IF a[Len(a)] = 0 THEN BnNorm(SubSeq(a, 1, Len(a) - 1))
    ELSE a

RECURSIVE BnFromInt(_)
BnFromInt(n) == IF n = 0 THEN << >> ELSE <<n % Base>> \o BnFromInt(n \div Base)

Limb(a, i) == IF i <= Len(a) THEN a[i] ELSE 0

RECURSIVE BnCmpFrom(_, _, _)
BnCmpFrom(a, b, i) ==
    IF i = 0 THEN 0
    ELSE IF a[i] < b[i] THEN -1
    ELSE IF a[i] > b[i] THEN 1
    ELSE BnCmpFrom(a, b, i - 1)

\* -1, 0, 1 as a < b, a = b, a > b
BnCmpBody(a, b) ==
    IF Len(a) < Len(b) THEN -1
    ELSE IF Len(a) > Len(b) THEN 1
    ELSE BnCmpFrom(a, b, Len(a))

RECURSIVE BnAddFrom(_, _, _, _)
BnAddFrom(a, b, i, c) ==
    IF i > Len(a) /\ i > Len(b) THEN (IF c = 0 THEN << >> ELSE <<c>>)
    ELSE LET t == Limb(a, i) + Limb(b, i) + c
         IN  <<t % Base>> \o BnAddFrom(a, b, i + 1, t \div Base)

BnAddBody(a, b) == BnAddFrom(a, b, 1, 0)

RECURSIVE BnSubFrom(_, _, _, _)
BnSubFrom(a, b, i, c) ==
    IF i > Len(a) THEN << >>
    ELSE LET t == a[i] - Limb(b, i) - c
         IN  IF t < 0 THEN <<t + Base>> \o BnSubFrom(a, b, i + 1, 1)
             ELSE <<t>> \o BnSubFrom(a, b, i + 1, 0)

\* a - b for a >= b
BnSubBody(a, b) == BnNorm(BnSubFrom(a, b, 1, 0))

RECURSIVE BnMulSmallFrom(_, _, _, _)
BnMulSmallFrom(a, k, i, c) ==
    IF i > Len(a) THEN (IF c = 0 THEN << >> ELSE <<c>>)
    ELSE LET t == a[i] * k + c
         IN  <<t % Base>> \o BnMulSmallFrom(a, k, i + 1, t \div Base)

\* a * k for 0 <= k < Base
BnMulSmallBody(a, k) == IF k = 0 THEN << >> ELSE BnMulSmallFrom(a, k, 1, 0)

Zeros(n) == [i \in 1..n |-> 0]

BnShiftLimbs(a, n) == IF a = << >> THEN << >> ELSE Zeros(n) \o a

RECURSIVE BnMulFrom(_, _, _)
BnMulFrom(a, b, j) ==
    IF j > Len(b) THEN << >>
    ELSE BnAdd(BnShiftLimbs(BnMulSmall(a, b[j]), j - 1), BnMulFrom(a, b, j + 1))

BnMulBody(a, b) == BnMulFrom(a, b, 1)

\* a * 2^n
BnShlBody(a, n) == BnShiftLimbs(BnMulSmall(a, Pow2(n % LimbBits)), n \div LimbBits)

RECURSIVE BnDivSmallFrom(_, _, _, _)
BnDivSmallFrom(a, k, i, r) ==
    IF i = 0 THEN [q |-> << >>, r |-> r]
    ELSE LET t    == r * Base + a[i]
             rest == BnDivSmallFrom(a, k, i - 1, t % k)
         IN  [q |-> rest.q \o <<t \div k>>, r |-> rest.r]

\* quotient and remainder of a by k, 0 < k <= Base
BnDivSmallBody(a, k) ==
    LET d == BnDivSmallFrom(a, k, Len(a), 0) IN [q |-> BnNorm(d.q), r |-> d.r]

\* floor(a / 2^n)
BnShrBody(a, n) ==
    IF n \div LimbBits >= Len(a) THEN << >>
    ELSE BnDivSmall(SubSeq(a, n \div LimbBits + 1, Len(a)), Pow2(n % LimbBits)).q

BnBitLenBody(a) == IF a = << >> THEN 0 ELSE LimbBits * (Len(a) - 1) + BitLenInt(a[Len(a)])

BnIsOdd(a) == a # << >> /\ a[1] % 2 = 1

\* a as an integer, a < 2^31
BnToIntBody(a) == Limb(a, 1) + Base * (Limb(a, 2) + Base * Limb(a, 3))

\* the quotient q and remainder r - q * b, counted up from a q that is not
\* above the true one
RECURSIVE BnDivFix(_, _, _)
BnDivFix(r, b, q) ==
    IF BnCmp(r, b) >= 0 THEN BnDivFix(BnSub(r, b), b, q + 1) ELSE [q |-> q, r |-> r]

\* One limb of long division: for r < b and a limb d, the quotient (below
\* Base) and the remainder of r * Base + d by b.  A b of more than
\* LimbBits + 1 bits is divided by its leading bits, taken one too large:
\* a quotient at most 3 too small.
BnDivLimbBody(r, b, d) ==
    LET rb == BnNorm(<<d>> \o r)
        k  == IF BnBitLen(b) > LimbBits + 1 THEN BnBitLen(b) - (LimbBits + 1) ELSE 0
        q0 == IF k = 0 THEN BnToInt(rb) \div BnToInt(b)
              ELSE BnToInt(BnShr(rb, k)) \div (BnToInt(BnShr(b, k)) + 1)
    IN  BnDivFix(BnSub(rb, BnMulSmall(b, q0)), b, q0)

\* long division of the limbs a[i], ..., a[1] after a remainder r < b and
\* the quotient limbs q found so far
RECURSIVE BnDivModFrom(_, _, _, _, _)
BnDivModFrom(a, b, i, r, q) ==
    IF i = 0 THEN [q |-> q, r |-> r]
    ELSE LET d == BnDivLimb(r, b, a[i])
         IN  IF q = << >> /\ d.q = 0 THEN BnDivModFrom(a, b, i - 1, d.r, q)
             ELSE BnDivModFrom(a, b, i - 1, d.r, <<d.q>> \o q)

\* quotient and remainder of a by b, b # 0
BnDivModBody(a, b) ==
    IF Len(a) < Len(b) THEN [q |-> << >>, r |-> a]
    ELSE BnDivModFrom(a, b, Len(a) - Len(b) + 1,
                      SubSeq(a, Len(a) - Len(b) + 2, Len(a)), << >>)

\* a / b rounded to the nearest integer, ties to even
BnRoundDivBody(a, b) ==
    LET d == BnDivMod(a, b)
        c == BnCmp(BnAdd(d.r, d.r), b)
    IN  IF c > 0 \/ (c = 0 /\ BnIsOdd(d.q)) THEN BnAdd(d.q, <<1>>) ELSE d.q

RECURSIVE Pow10(_)
Pow10(k) == IF k < 5 THEN <<10^k>> ELSE BnMul(Pow10(k \div 2), Pow10(k - k \div 2))

----------------------------------------------------------------------------
(* Python floats.  [s |-> 1 or -1, m |-> significand, e |-> exponent];     *)
(* a non-zero float has exactly Precision significand bits; zero is        *)
(* [s |-> 1, m |-> << >>, e |-> 0].                                         *)

Precision == 53

FZero == [s |-> 1, m |-> << >>, e |-> 0]

IsZero(x) == x.m = << >>

\* s * n * 2^e rounded to nearest, ties to even
FRoundBody(s, n, e) ==
    LET len == BnBitLen(n) IN
    IF len = 0 THEN FZero
    ELSE IF len <= Precision
    THEN [s |-> s, m |-> BnShl(n, Precision - len), e |-> e - (Precision - len)]
    ELSE LET sh   == len - Precision
             q    == BnShr(n, sh)
             rem  == BnSub(n, BnShl(q, sh))
             c    == BnCmp(rem, BnShl(<<1>>, sh - 1))
             up   == c > 0 \/ (c = 0 /\ BnIsOdd(q))
             q1   == IF up THEN BnAdd(q, <<1>>) ELSE q
         IN  IF BnBitLen(q1) > Precision
             THEN [s |-> s, m |-> BnShr(q1, 1), e |-> e + sh + 1]
             ELSE [s |-> s, m |-> q1, e |-> e + sh]

\* int -> float, |n| < 2^31
FromIntBody(n) == IF n < 0 THEN FRound(-1, BnFromInt(-n), 0) ELSE FRound(1, BnFromInt(n), 0)

FNeg(x) == IF IsZero(x) THEN x ELSE [x EXCEPT !.s = -x.s]

FAbs(x) == [x EXCEPT !.s = 1]

\* x + y for non-zero x, y with x.e >= y.e
FAddAlignedBody(x, y) ==
    IF x.e - y.e > Precision + 3 THEN x
    ELSE LET a == BnShl(x.m, x.e - y.e)
             c == BnCmp(a, y.m)
         IN  IF x.s = y.s THEN FRound(x.s, BnAdd(a, y.m), y.e)
             ELSE IF c = 0 THEN FZero
             ELSE IF c > 0 THEN FRound(x.s, BnSub(a, y.m), y.e)
             ELSE FRound(y.s, BnSub(y.m, a), y.e)

FAddBody(x, y) ==
    IF IsZero(x) THEN y
    ELSE IF IsZero(y) THEN x
    ELSE IF x.e >= y.e THEN FAddAligned(x, y)
    ELSE FAddAligned(y, x)

FSub(x, y) == FAdd(x, FNeg(y))

FMulBody(x, y) ==
    IF IsZero(x) \/ IsZero(y) THEN FZero
    ELSE FRound(x.s * y.s, BnMul(x.m, y.m), x.e + y.e)

\* s * (n / d) * 2^e rounded, for naturals n, d # 0: a quotient of at
\* least Precision + 2 bits, then one more bit that says whether a
\* remainder is left
FQuotBody(s, n, d, e) ==
    LET gap == Precision + 2 + BnBitLen(d) - BnBitLen(n)
        sh  == IF gap > 0 THEN gap ELSE 0
        dm  == BnDivMod(BnShl(n, sh), d)
    IN  IF dm.r = << >> THEN FRound(s, BnAdd(dm.q, dm.q), e - sh - 1)
        ELSE FRound(s, BnAdd(BnAdd(dm.q, dm.q), <<1>>), e - sh - 1)

\* x / y for y # 0
FDivBody(x, y) ==
    IF IsZero(x) \/ IsZero(y) THEN FZero
    ELSE FQuot(x.s * y.s, x.m, y.m, x.e - y.e)

\* the float n / d of integers n, d
RatioBody(n, d) == FDiv(FromInt(n), FromInt(d))

\* -1, 0, 1 as x < y, x = y, x > y
FCmpBody(x, y) ==
    LET sx == IF IsZero(x) THEN 0 ELSE x.s
        sy == IF IsZero(y) THEN 0 ELSE y.s
    IN  IF sx # sy THEN (IF sx < sy THEN -1 ELSE 1)
        ELSE IF sx = 0 THEN 0
        ELSE IF x.e # y.e THEN (IF x.e < y.e THEN -sx ELSE sx)
        ELSE sx * BnCmp(x.m, y.m)

FLt(x, y) == FCmp(x, y) < 0
FGt(x, y) == FCmp(x, y) > 0

FLe(x, y) == FCmp(x, y) <= 0

----------------------------------------------------------------------------
(* What app.py reports: round(v, 10) and f"{error:.6e}".                   *)

\* round(x, ndigits): x to ndigits decimals, ties of the exact value to
\* even, and the float nearest to that decimal
roundBody(x, ndigits) ==
    IF IsZero(x) \/ x.e >= 0 THEN x
    ELSE LET n == BnRoundDiv(BnMul(x.m, Pow10(ndigits)), BnShl(<<1>>, -x.e))
         IN  IF n = << >> THEN FZero ELSE FQuot(x.s, n, Pow10(ndigits), 0)

\* the digits of |x| / 10^k to p decimals, for the least k from k on that
\* leaves one digit before the point
RECURSIVE FormatFrom(_, _, _)
FormatFrom(x, p, k) ==
    LET a == BnMul(IF x.e > 0 THEN BnShl(x.m, x.e) ELSE x.m,
                   Pow10(IF k < p THEN p - k ELSE 0))
        d == BnMul(IF x.e < 0 THEN BnShl(<<1>>, -x.e) ELSE <<1>>,
                   Pow10(IF k > p THEN k - p ELSE 0))
        n == BnRoundDiv(a, d)
    IN  IF BnCmp(n, Pow10(p + 1)) >= 0 THEN FormatFrom(x, p, k + 1)
        ELSE [sign |-> x.s, digits |-> BnToInt(n), exp |-> k]

\* f"{x:.pe}": the text d.ddd...e+XX, kept as its sign, its p + 1 digits
\* and its exponent.  The search starts below floor(log10 |x|): |x| is at
\* least 2^(Precision + x.e - 1), and log10 2 is just above 30102 / 100000.
format_eBody(x, p) ==
    IF IsZero(x) THEN [sign |-> 1, digits |-> 0, exp |-> 0]
    ELSE LET bits == Precision + x.e - 1
         IN  FormatFrom(x, p, (IF bits >= 0 THEN (bits * 30102) \div 100000
                                ELSE -((-bits * 30103) \div 100000) - 1))

----------------------------------------------------------------------------
(* The float literals of the source.                                       *)

Two == FromInt(2)

\* 1e-12, the singularity threshold (ZOF_CLI.py 156, 212, 308)
SingularEps == FDiv(FromInt(1), FMul(FromInt(1000000), FromInt(1000000)))

\* 1e10, the divergence threshold (ZOF_CLI.py 279)
DivergeLimit == FMul(FromInt(100000), FromInt(100000))

----------------------------------------------------------------------------
(* Function texts.  sympify + lambdify(x, expr, 'math') turn a text into   *)
(* Python code over floats; what each text of FuncTexts becomes is written *)
(* out in func and derivative.                                             *)

FuncTexts == {"x**2 - 4", "x**3 - 2*x - 5", "2*x", "4", "1/x", "x + y", "x**2 -"}

Value(v) == [ok |-> TRUE, v |-> v]
Raises(exc) == [ok |-> FALSE, exc |-> exc]

\* float ** 2 and float ** 3: the exact power, rounded once
FSquare(x) == FMul(x, x)
FCubeBody(x) ==
    IF IsZero(x) THEN FZero
    ELSE FRound(x.s, BnMul(BnMul(x.m, x.m), x.m), 3 * x.e)

\* parse_function: sympify rejects a text that is no expression
parse_function(func_str) ==
    IF func_str = "x**2 -" THEN Raises("ValueError") ELSE Value(func_str)

\* func(x), the lambdified expression applied to a float
funcBody(func_str, x) ==
    CASE func_str = "x**2 - 4"       -> Value(FSub(FSquare(x), FromInt(4)))
      [] func_str = "x**3 - 2*x - 5" -> Value(FSub(FSub(FCube(x), FMul(Two, x)), FromInt(5)))
      [] func_str = "2*x"            -> Value(FMul(Two, x))
      [] func_str = "4"              -> Value(FromInt(4))
      [] func_str = "1/x"            -> IF IsZero(x) THEN Raises("ZeroDivisionError")
                                        ELSE Value(FDiv(FromInt(1), x))
      [] func_str = "x + y"          -> Raises("NameError")

\* derivative(x), the lambdified sp.diff(expr, x)
derivativeBody(func_str, x) ==
    CASE func_str = "x**2 - 4"       -> Value(FMul(Two, x))
      [] func_str = "x**3 - 2*x - 5" -> Value(FSub(FMul(FromInt(3), FSquare(x)), Two))
      [] func_str = "2*x"            -> Value(Two)
      [] func_str = "4"              -> Value(FZero)
      [] func_str = "1/x"            -> IF IsZero(x) THEN Raises("ZeroDivisionError")
                                        ELSE Value(FDiv(FromInt(-1), FSquare(x)))
      [] func_str = "x + y"          -> Value(FromInt(1))

----------------------------------------------------------------------------
(* What a stretch of a method's code ends with.                            *)

\* falls through to the next statement with locals l
Goes(l) == [t |-> "goes", l |-> l]
\* self.iteration_data.append(rec), then on with locals l
Appends(l, rec) == [t |-> "appends", l |-> l, rec |-> rec]
\* return dict
Returns(dict) == [t |-> "returns", dict |-> dict]
\* an exception leaves the method
Throws(exc) == [t |-> "throws", exc |-> exc]

\* The two copies of the class differ in what they report: ZOF_CLI.py the
\* floats themselves, app.py round(v, 10) and f"{error:.6e}".
Shown(cls, v) == IF cls = "app" THEN round(v, 10) ELSE v
ShownError(cls, v) == IF cls = "app" THEN format_e(v, 6) ELSE v

----------------------------------------------------------------------------
(* bisection_method(func_str, a, b, tol, max_iter).  q holds the           *)
(* arguments, l the locals, data the list self.iteration_data refers to.   *)

\* fa, fb and the opposite-sign check, before the loop
bisection_start(q) ==
    LET fa == func(q.func_str, q.a)
        fb == func(q.func_str, q.b)
    IN  IF ~fa.ok THEN Throws(fa.exc)
        ELSE IF ~fb.ok THEN Throws(fb.exc)
        ELSE IF FGt(FMul(fa.v, fb.v), FZero)
        THEN Returns([error |-> "Function must have opposite signs at endpoints"])
        ELSE Goes([i |-> 0, a |-> q.a, b |-> q.b, fa |-> fa.v, fb |-> fb.v])

\* a bisection pass that tests for convergence before its append, and so
\* returns without the record of the converging pass
bisection_pass_test_first(q, l) ==
    LET c     == FDiv(FAdd(l.a, l.b), Two)
        fc    == func(q.func_str, c)
        error == FDiv(FAbs(FSub(l.b, l.a)), Two)
    IN  IF ~fc.ok THEN Throws(fc.exc)
        ELSE IF FLt(FAbs(fc.v), q.tol) \/ FLt(error, q.tol)
        THEN Returns([root |-> Shown(q.cls, c), iterations |-> l.i,
                      final_error |-> ShownError(q.cls, error),
                      iteration_data |-> iteration_data, method |-> "Bisection Method"])
        ELSE Appends([i |-> l.i, a |-> l.a, b |-> l.b, fa |-> l.fa, fb |-> l.fb,
                      c |-> c, fc |-> fc.v, error |-> error],
                     [iteration |-> l.i, a |-> Shown(q.cls, l.a), b |-> Shown(q.cls, l.b),
                      c |-> Shown(q.cls, c), f_c |-> Shown(q.cls, fc.v),
                      error |-> ShownError(q.cls, error)])

\* a loop pass down to the append; l.i is this pass's i
bisection_pass(q, l) ==
    LET c     == FDiv(FAdd(l.a, l.b), Two)
        fc    == func(q.func_str, c)
        error == FDiv(FAbs(FSub(l.b, l.a)), Two)
    IN  IF ~fc.ok THEN Throws(fc.exc)
        ELSE Appends([i |-> l.i, a |-> l.a, b |-> l.b, fa |-> l.fa, fb |-> l.fb,
                      c |-> c, fc |-> fc.v, error |-> error],
                     [iteration |-> l.i, a |-> Shown(q.cls, l.a), b |-> Shown(q.cls, l.b),
                      c |-> Shown(q.cls, c), f_c |-> Shown(q.cls, fc.v),
                      error |-> ShownError(q.cls, error)])

\* bisection's convergence return counting its passes from 0
bisection_test_from_zero(q, l, data) ==
    IF FLt(FAbs(l.fc), q.tol) \/ FLt(l.error, q.tol)
    THEN Returns([root |-> Shown(q.cls, l.c), iterations |-> l.i - 1,
                  final_error |-> ShownError(q.cls, l.error), iteration_data |-> data,
                  method |-> "Bisection Method"])
    ELSE IF FLt(FMul(l.fa, l.fc), FZero)
    THEN Goes([l EXCEPT !.b = l.c, !.fb = l.fc])
    ELSE Goes([l EXCEPT !.a = l.c, !.fa = l.fc])

\* bisection keeping the half without the sign change
bisection_test_other_half(q, l, data) ==
    IF FLt(FAbs(l.fc), q.tol) \/ FLt(l.error, q.tol)
    THEN Returns([root |-> Shown(q.cls, l.c), iterations |-> l.i,
                  final_error |-> ShownError(q.cls, l.error), iteration_data |-> data,
                  method |-> "Bisection Method"])
    ELSE IF FLt(FMul(l.fa, l.fc), FZero)
    THEN Goes([l EXCEPT !.a = l.c, !.fa = l.fc])
    ELSE Goes([l EXCEPT !.b = l.c, !.fb = l.fc])

\* the rest of the pass: the convergence test, else the bracket replacement
bisection_test(q, l, data) ==
    IF FLt(FAbs(l.fc), q.tol) \/ FLt(l.error, q.tol)
    THEN Returns([root |-> Shown(q.cls, l.c), iterations |-> l.i,
                  final_error |-> ShownError(q.cls, l.error), iteration_data |-> data,
                  method |-> "Bisection Method"])
    ELSE IF FLt(FMul(l.fa, l.fc), FZero)
    THEN Goes([l EXCEPT !.b = l.c, !.fb = l.fc])
    ELSE Goes([l EXCEPT !.a = l.c, !.fa = l.fc])

\* after the loop
bisection_end(q, l, data) ==
    Returns([root |-> Shown(q.cls, l.c), iterations |-> q.max_iter,
             final_error |-> ShownError(q.cls, l.error), iteration_data |-> data,
             method |-> "Bisection Method", warning |-> "Maximum iterations reached"])

----------------------------------------------------------------------------
(* regula_falsi_method(func_str, a, b, tol, max_iter)                      *)

\* regula falsi refusing endpoints whose product is not negative
regula_falsi_start_strict(q) ==
    LET fa == func(q.func_str, q.a)
        fb == func(q.func_str, q.b)
    IN  IF ~fa.ok THEN Throws(fa.exc)
        ELSE IF ~fb.ok THEN Throws(fb.exc)
        ELSE IF ~FLt(FMul(fa.v, fb.v), FZero)
        THEN Returns([error |-> "Function must have opposite signs at endpoints"])
        ELSE Goes([i |-> 0, a |-> q.a, b |-> q.b, fa |-> fa.v, fb |-> fb.v, c_old |-> q.a])

regula_falsi_start(q) ==
    LET fa == func(q.func_str, q.a)
        fb == func(q.func_str, q.b)
    IN  IF ~fa.ok THEN Throws(fa.exc)
        ELSE IF ~fb.ok THEN Throws(fb.exc)
        ELSE IF FGt(FMul(fa.v, fb.v), FZero)
        THEN Returns([error |-> "Function must have opposite signs at endpoints"])
        ELSE Goes([i |-> 0, a |-> q.a, b |-> q.b, fa |-> fa.v, fb |-> fb.v, c_old |-> q.a])

\* a Regula Falsi pass whose error is the width of the current bracket on
\* every pass
regula_falsi_pass_width(q, l) ==
    LET den   == FSub(l.fb, l.fa)
        c     == FSub(l.b, FDiv(FMul(l.fb, FSub(l.b, l.a)), den))
        fc    == func(q.func_str, c)
        error == FAbs(FSub(l.b, l.a))
    IN  IF IsZero(den) THEN Throws("ZeroDivisionError")
        ELSE IF ~fc.ok THEN Throws(fc.exc)
        ELSE Appends([i |-> l.i, a |-> l.a, b |-> l.b, fa |-> l.fa, fb |-> l.fb,
                      c_old |-> l.c_old, c |-> c, fc |-> fc.v, error |-> error],
                     [iteration |-> l.i, a |-> Shown(q.cls, l.a), b |-> Shown(q.cls, l.b),
                      c |-> Shown(q.cls, c), f_c |-> Shown(q.cls, fc.v),
                      error |-> ShownError(q.cls, error)])

regula_falsi_pass(q, l) ==
    LET den   == FSub(l.fb, l.fa)
        c     == FSub(l.b, FDiv(FMul(l.fb, FSub(l.b, l.a)), den))
        fc    == func(q.func_str, c)
        error == IF l.i > 1 THEN FAbs(FSub(c, l.c_old)) ELSE FAbs(FSub(l.b, l.a))
    IN  IF IsZero(den) THEN Throws("ZeroDivisionError")
        ELSE IF ~fc.ok THEN Throws(fc.exc)
        ELSE Appends([i |-> l.i, a |-> l.a, b |-> l.b, fa |-> l.fa, fb |-> l.fb,
                      c_old |-> l.c_old, c |-> c, fc |-> fc.v, error |-> error],
                     [iteration |-> l.i, a |-> Shown(q.cls, l.a), b |-> Shown(q.cls, l.b),
                      c |-> Shown(q.cls, c), f_c |-> Shown(q.cls, fc.v),
                      error |-> ShownError(q.cls, error)])

regula_falsi_test(q, l, data) ==
    IF FLt(FAbs(l.fc), q.tol) \/ FLt(l.error, q.tol)
    THEN Returns([root |-> Shown(q.cls, l.c), iterations |-> l.i,
                  final_error |-> ShownError(q.cls, l.error), iteration_data |-> data,
                  method |-> "Regula Falsi Method"])
    ELSE IF FLt(FMul(l.fa, l.fc), FZero)
    THEN Goes([l EXCEPT !.b = l.c, !.fb = l.fc, !.c_old = l.c])
    ELSE Goes([l EXCEPT !.a = l.c, !.fa = l.fc, !.c_old = l.c])

regula_falsi_end(q, l, data) ==
    Returns([root |-> Shown(q.cls, l.c), iterations |-> q.max_iter,
             final_error |-> ShownError(q.cls, l.error), iteration_data |-> data,
             method |-> "Regula Falsi Method", warning |-> "Maximum iterations reached"])

----------------------------------------------------------------------------
(* secant_method(func_str, x0, x1, tol, max_iter)                          *)

secant_start(q) ==
    LET f0 == func(q.func_str, q.x0)
        f1 == func(q.func_str, q.x1)
    IN  IF ~f0.ok THEN Throws(f0.exc)
        ELSE IF ~f1.ok THEN Throws(f1.exc)
        ELSE Goes([i |-> 0, x0 |-> q.x0, x1 |-> q.x1, f0 |-> f0.v, f1 |-> f1.v])

\* a Secant pass that tests its denominator on the first pass only
secant_pass_checked_once(q, l) ==
    LET den   == FSub(l.f1, l.f0)
        x2    == FSub(l.x1, FDiv(FMul(l.f1, FSub(l.x1, l.x0)), den))
        f2    == func(q.func_str, x2)
        error == FAbs(FSub(x2, l.x1))
    IN  IF l.i = 1 /\ FLt(FAbs(den), SingularEps)
        THEN Returns([error |-> "Division by zero: f(x1) - f(x0) too small"])
        ELSE IF IsZero(den) THEN Throws("ZeroDivisionError")
        ELSE IF ~f2.ok THEN Throws(f2.exc)
        ELSE Appends([i |-> l.i, x0 |-> l.x0, x1 |-> l.x1, f0 |-> l.f0, f1 |-> l.f1,
                      x2 |-> x2, f2 |-> f2.v, error |-> error],
                     [iteration |-> l.i, x0 |-> Shown(q.cls, l.x0), x1 |-> Shown(q.cls, l.x1),
                      x2 |-> Shown(q.cls, x2), f_x2 |-> Shown(q.cls, f2.v),
                      error |-> ShownError(q.cls, error)])

secant_pass(q, l) ==
    LET den   == FSub(l.f1, l.f0)
        x2    == FSub(l.x1, FDiv(FMul(l.f1, FSub(l.x1, l.x0)), den))
        f2    == func(q.func_str, x2)
        error == FAbs(FSub(x2, l.x1))
    IN  IF FLt(FAbs(den), SingularEps)
        THEN Returns([error |-> "Division by zero: f(x1) - f(x0) too small"])
        ELSE IF ~f2.ok THEN Throws(f2.exc)
        ELSE Appends([i |-> l.i, x0 |-> l.x0, x1 |-> l.x1, f0 |-> l.f0, f1 |-> l.f1,
                      x2 |-> x2, f2 |-> f2.v, error |-> error],
                     [iteration |-> l.i, x0 |-> Shown(q.cls, l.x0), x1 |-> Shown(q.cls, l.x1),
                      x2 |-> Shown(q.cls, x2), f_x2 |-> Shown(q.cls, f2.v),
                      error |-> ShownError(q.cls, error)])

secant_test(q, l, data) ==
    IF FLt(FAbs(l.f2), q.tol) \/ FLt(l.error, q.tol)
    THEN Returns([root |-> Shown(q.cls, l.x2), iterations |-> l.i,
                  final_error |-> ShownError(q.cls, l.error), iteration_data |-> data,
                  method |-> "Secant Method"])
    ELSE Goes([l EXCEPT !.x0 = l.x1, !.f0 = l.f1, !.x1 = l.x2, !.f1 = l.f2])

secant_end(q, l, data) ==
    Returns([root |-> Shown(q.cls, l.x2), iterations |-> q.max_iter,
             final_error |-> ShownError(q.cls, l.error), iteration_data |-> data,
             method |-> "Secant Method", warning |-> "Maximum iterations reached"])

----------------------------------------------------------------------------
(* newton_raphson_method(func_str, x0, tol, max_iter)                      *)

newton_raphson_start(q) == Goes([i |-> 0, x |-> q.x0])

\* a Newton-Raphson pass without the test of the derivative
newton_raphson_pass_unchecked(q, l) ==
    LET fx    == func(q.func_str, l.x)
        dfx   == derivative(q.func_str, l.x)
        x_new == FSub(l.x, FDiv(fx.v, dfx.v))
        error == FAbs(FSub(x_new, l.x))
    IN  IF ~fx.ok THEN Throws(fx.exc)
        ELSE IF ~dfx.ok THEN Throws(dfx.exc)
        ELSE IF IsZero(dfx.v) THEN Throws("ZeroDivisionError")
        ELSE Appends([i |-> l.i, x |-> l.x, x_new |-> x_new, error |-> error],
                     [iteration |-> l.i, x |-> Shown(q.cls, l.x), f_x |-> Shown(q.cls, fx.v),
                      df_x |-> Shown(q.cls, dfx.v), x_new |-> Shown(q.cls, x_new),
                      error |-> ShownError(q.cls, error)])

\* a Newton-Raphson pass that tests the derivative as it reports it: in
\* app.py, rounded to 10 places
newton_raphson_pass_reported_test(q, l) ==
    LET fx    == func(q.func_str, l.x)
        dfx   == derivative(q.func_str, l.x)
        x_new == FSub(l.x, FDiv(fx.v, dfx.v))
        error == FAbs(FSub(x_new, l.x))
    IN  IF ~fx.ok THEN Throws(fx.exc)
        ELSE IF ~dfx.ok THEN Throws(dfx.exc)
        ELSE IF FLt(FAbs(Shown(q.cls, dfx.v)), SingularEps)
        THEN Returns([error |-> "Derivative too small, division by zero"])
        ELSE Appends([i |-> l.i, x |-> l.x, x_new |-> x_new, error |-> error],
                     [iteration |-> l.i, x |-> Shown(q.cls, l.x), f_x |-> Shown(q.cls, fx.v),
                      df_x |-> Shown(q.cls, dfx.v), x_new |-> Shown(q.cls, x_new),
                      error |-> ShownError(q.cls, error)])

newton_raphson_pass(q, l) ==
    LET fx    == func(q.func_str, l.x)
        dfx   == derivative(q.func_str, l.x)
        x_new == FSub(l.x, FDiv(fx.v, dfx.v))
        error == FAbs(FSub(x_new, l.x))
    IN  IF ~fx.ok THEN Throws(fx.exc)
        ELSE IF ~dfx.ok THEN Throws(dfx.exc)
        ELSE IF FLt(FAbs(dfx.v), SingularEps)
        THEN Returns([error |-> "Derivative too small, division by zero"])
        ELSE Appends([i |-> l.i, x |-> l.x, x_new |-> x_new, error |-> error],
                     [iteration |-> l.i, x |-> Shown(q.cls, l.x), f_x |-> Shown(q.cls, fx.v),
                      df_x |-> Shown(q.cls, dfx.v), x_new |-> Shown(q.cls, x_new),
                      error |-> ShownError(q.cls, error)])

\* Newton-Raphson asking for both the function value and the error to be
\* below tolerance
newton_raphson_test_both(q, l, data) ==
    LET fnew == func(q.func_str, l.x_new)
    IN  IF ~fnew.ok THEN Throws(fnew.exc)
        ELSE IF FLt(FAbs(fnew.v), q.tol) /\ FLt(l.error, q.tol)
        THEN Returns([root |-> Shown(q.cls, l.x_new), iterations |-> l.i,
                      final_error |-> ShownError(q.cls, l.error), iteration_data |-> data,
                      method |-> "Newton-Raphson Method"])
        ELSE Goes([l EXCEPT !.x = l.x_new])

newton_raphson_test(q, l, data) ==
    LET fnew == func(q.func_str, l.x_new)
    IN  IF ~fnew.ok THEN Throws(fnew.exc)
        ELSE IF FLt(FAbs(fnew.v), q.tol) \/ FLt(l.error, q.tol)
        THEN Returns([root |-> Shown(q.cls, l.x_new), iterations |-> l.i,
                      final_error |-> ShownError(q.cls, l.error), iteration_data |-> data,
                      method |-> "Newton-Raphson Method"])
        ELSE Goes([l EXCEPT !.x = l.x_new])

newton_raphson_end(q, l, data) ==
    Returns([root |-> Shown(q.cls, l.x), iterations |-> q.max_iter,
             final_error |-> ShownError(q.cls, l.error), iteration_data |-> data,
             method |-> "Newton-Raphson Method", warning |-> "Maximum iterations reached"])

----------------------------------------------------------------------------
(* fixed_point_iteration(func_str, x0, tol, max_iter)                      *)

fixed_point_start(q) == Goes([i |-> 0, x |-> q.x0])

fixed_point_pass(q, l) ==
    LET x_new == func(q.func_str, l.x)
        error == FAbs(FSub(x_new.v, l.x))
    IN  IF ~x_new.ok THEN Throws(x_new.exc)
        ELSE Appends([i |-> l.i, x |-> l.x, x_new |-> x_new.v, error |-> error],
                     [iteration |-> l.i, x |-> Shown(q.cls, l.x),
                      g_x |-> Shown(q.cls, x_new.v), error |-> ShownError(q.cls, error)])

\* Fixed Point without its divergence check
fixed_point_test_unbounded(q, l, data) ==
    IF FLt(l.error, q.tol)
    THEN Returns([root |-> Shown(q.cls, l.x_new), iterations |-> l.i,
                  final_error |-> ShownError(q.cls, l.error), iteration_data |-> data,
                  method |-> "Fixed Point Iteration"])
    ELSE Goes([l EXCEPT !.x = l.x_new])

fixed_point_test(q, l, data) ==
    IF FLt(l.error, q.tol)
    THEN Returns([root |-> Shown(q.cls, l.x_new), iterations |-> l.i,
                  final_error |-> ShownError(q.cls, l.error), iteration_data |-> data,
                  method |-> "Fixed Point Iteration"])
    ELSE IF FGt(FAbs(l.x_new), DivergeLimit)
    THEN Returns([error |-> "Method diverging, |x| > 10^10"])
    ELSE Goes([l EXCEPT !.x = l.x_new])

\* Fixed Point reporting the exhausted budget as a failure
fixed_point_end_as_failure(q, l, data) ==
    Returns([error |-> "Maximum iterations reached"])

fixed_point_end(q, l, data) ==
    Returns([root |-> Shown(q.cls, l.x), iterations |-> q.max_iter,
             final_error |-> ShownError(q.cls, l.error), iteration_data |-> data,
             method |-> "Fixed Point Iteration", warning |-> "Maximum iterations reached"])

----------------------------------------------------------------------------
(* modified_secant_method(func_str, x0, delta, tol, max_iter)              *)

modified_secant_start(q) == Goes([i |-> 0, x |-> q.x0])

\* a Modified Secant pass that probes at x + delta when x = 0 but steps
\* with delta * x at every x
modified_secant_pass_scaled_step(q, l) ==
    LET fx       == func(q.func_str, l.x)
        fx_delta == IF ~IsZero(l.x) THEN func(q.func_str, FAdd(l.x, FMul(q.delta, l.x)))
                    ELSE func(q.func_str, FAdd(l.x, q.delta))
        den      == FSub(fx_delta.v, fx.v)
        step     == FMul(q.delta, l.x)
        x_new    == FSub(l.x, FDiv(FMul(fx.v, step), den))
        error    == FAbs(FSub(x_new, l.x))
    IN  IF ~fx.ok THEN Throws(fx.exc)
        ELSE IF ~fx_delta.ok THEN Throws(fx_delta.exc)
        ELSE IF FLt(FAbs(den), SingularEps)
        THEN Returns([error |-> "Division by zero: f(x + dx) - f(x) too small"])
        ELSE Appends([i |-> l.i, x |-> l.x, x_new |-> x_new, error |-> error],
                     [iteration |-> l.i, x |-> Shown(q.cls, l.x), f_x |-> Shown(q.cls, fx.v),
                      f_x_dx |-> Shown(q.cls, fx_delta.v), x_new |-> Shown(q.cls, x_new),
                      error |-> ShownError(q.cls, error)])

modified_secant_pass(q, l) ==
    LET fx       == func(q.func_str, l.x)
        fx_delta == IF ~IsZero(l.x) THEN func(q.func_str, FAdd(l.x, FMul(q.delta, l.x)))
                    ELSE func(q.func_str, FAdd(l.x, q.delta))
        den      == FSub(fx_delta.v, fx.v)
        step     == IF ~IsZero(l.x) THEN FMul(q.delta, l.x) ELSE q.delta
        x_new    == FSub(l.x, FDiv(FMul(fx.v, step), den))
        error    == FAbs(FSub(x_new, l.x))
    IN  IF ~fx.ok THEN Throws(fx.exc)
        ELSE IF ~fx_delta.ok THEN Throws(fx_delta.exc)
        ELSE IF FLt(FAbs(den), SingularEps)
        THEN Returns([error |-> "Division by zero: f(x + dx) - f(x) too small"])
        ELSE Appends([i |-> l.i, x |-> l.x, x_new |-> x_new, error |-> error],
                     [iteration |-> l.i, x |-> Shown(q.cls, l.x), f_x |-> Shown(q.cls, fx.v),
                      f_x_dx |-> Shown(q.cls, fx_delta.v), x_new |-> Shown(q.cls, x_new),
                      error |-> ShownError(q.cls, error)])

modified_secant_test(q, l, data) ==
    LET fnew == func(q.func_str, l.x_new)
    IN  IF ~fnew.ok THEN Throws(fnew.exc)
        ELSE IF FLt(FAbs(fnew.v), q.tol) \/ FLt(l.error, q.tol)
        THEN Returns([root |-> Shown(q.cls, l.x_new), iterations |-> l.i,
                      final_error |-> ShownError(q.cls, l.error), iteration_data |-> data,
                      method |-> "Modified Secant Method"])
        ELSE Goes([l EXCEPT !.x = l.x_new])

modified_secant_end(q, l, data) ==
    Returns([root |-> Shown(q.cls, l.x), iterations |-> q.max_iter,
             final_error |-> ShownError(q.cls, l.error), iteration_data |-> data,
             method |-> "Modified Secant Method", warning |-> "Maximum iterations reached"])

----------------------------------------------------------------------------
(* The code of a method from one position of a call to the next.           *)

\* the called method's code before its loop
Start(method, q) ==
    CASE method = "bisection_method" -> bisection_start(q)
      [] method = "regula_falsi_method" -> regula_falsi_start(q)
      [] method = "secant_method" -> secant_start(q)
      [] method = "newton_raphson_method" -> newton_raphson_start(q)
      [] method = "fixed_point_iteration" -> fixed_point_start(q)
      [] method = "modified_secant_method" -> modified_secant_start(q)

\* a pass of the called method's loop down to its append
Pass(method, q, l) ==
    CASE method = "bisection_method" -> bisection_pass(q, l)
      [] method = "regula_falsi_method" -> regula_falsi_pass(q, l)
      [] method = "secant_method" -> secant_pass(q, l)
      [] method = "newton_raphson_method" -> newton_raphson_pass(q, l)
      [] method = "fixed_point_iteration" -> fixed_point_pass(q, l)
      [] method = "modified_secant_method" -> modified_secant_pass(q, l)

\* the rest of a pass of the called method's loop
Test(method, q, l, data) ==
    CASE method = "bisection_method" -> bisection_test(q, l, data)
      [] method = "regula_falsi_method" -> regula_falsi_test(q, l, data)
      [] method = "secant_method" -> secant_test(q, l, data)
      [] method = "newton_raphson_method" -> newton_raphson_test(q, l, data)
      [] method = "fixed_point_iteration" -> fixed_point_test(q, l, data)
      [] method = "modified_secant_method" -> modified_secant_test(q, l, data)

\* the called method's code after its loop
End(method, q, l, data) ==
    CASE method = "bisection_method" -> bisection_end(q, l, data)
      [] method = "regula_falsi_method" -> regula_falsi_end(q, l, data)
      [] method = "secant_method" -> secant_end(q, l, data)
      [] method = "newton_raphson_method" -> newton_raphson_end(q, l, data)
      [] method = "fixed_point_iteration" -> fixed_point_end(q, l, data)
      [] method = "modified_secant_method" -> modified_secant_end(q, l, data)

\* pc = "called": the code before the loop; "head": for i in range(1,
\* max_iter + 1), the next pass down to its append, or the code after the
\* loop; "appended": the rest of the pass
CodeBody(method, pc, q, l, data) ==
    CASE pc = "called"   -> Start(method, q)
      [] pc = "head"     -> IF l.i = q.max_iter THEN End(method, q, l, data)
                            ELSE Pass(method, q, [l EXCEPT !.i = @ + 1])
      [] pc = "appended" -> Test(method, q, l, data)

Arith(op, a) ==
    CASE a = << >>              -> a
      [] op = "Code"            -> CodeBody(a[1], a[2], a[3], a[4], a[5])
      [] op = "BnAdd"           -> BnAddBody(a[1], a[2])
      [] op = "BnSub"           -> BnSubBody(a[1], a[2])
      [] op = "BnCmp"           -> BnCmpBody(a[1], a[2])
      [] op = "BnToInt"         -> BnToIntBody(a[1])
      [] op = "BnBitLen"        -> BnBitLenBody(a[1])
      [] op = "BnMulSmall"      -> BnMulSmallBody(a[1], a[2])
      [] op = "BnDivSmall"      -> BnDivSmallBody(a[1], a[2])
      [] op = "FCmp"            -> FCmpBody(a[1], a[2])
      [] op = "BnShl"           -> BnShlBody(a[1], a[2])
      [] op = "BnShr"           -> BnShrBody(a[1], a[2])
      [] op = "BnDivLimb"       -> BnDivLimbBody(a[1], a[2], a[3])
      [] op = "BnDivMod"        -> BnDivModBody(a[1], a[2])
      [] op = "BnRoundDiv"      -> BnRoundDivBody(a[1], a[2])
      [] op = "BnMul"           -> BnMulBody(a[1], a[2])
      [] op = "FRound"          -> FRoundBody(a[1], a[2], a[3])
      [] op = "FromInt"         -> FromIntBody(a[1])
      [] op = "FAddAligned"     -> FAddAlignedBody(a[1], a[2])
      [] op = "FAdd"            -> FAddBody(a[1], a[2])
      [] op = "FMul"            -> FMulBody(a[1], a[2])
      [] op = "FQuot"           -> FQuotBody(a[1], a[2], a[3], a[4])
      [] op = "FDiv"            -> FDivBody(a[1], a[2])
      [] op = "FCube"           -> FCubeBody(a[1])
      [] op = "Ratio"           -> RatioBody(a[1], a[2])
      [] op = "round"           -> roundBody(a[1], a[2])
      [] op = "format_e"        -> format_eBody(a[1], a[2])
      [] op = "func"            -> funcBody(a[1], a[2])
      [] op = "derivative"      -> derivativeBody(a[1], a[2])

----------------------------------------------------------------------------
(* Calls.                                                                  *)

\* passes a call may ask for: max_iter ranges over 1..MaxIter
MaxIter == 3
\* calls made one after another on one solver object in SpecSeq
MaxCalls == 3

Procs == 1..MaxCalls

\* The numbers of the calls, each a pair <<n, d>> for the float n / d.
Tolerances == {<<1, 1000000>>, <<1, 4>>}
Brackets == {<<0, 3>>, <<2, 3>>, <<3, 4>>, <<-1, 1>>, <<0, 2>>, <<3, 0>>}
StartPairs == {<<0, 1>>, <<-1, 1>>, <<3, 2>>, <<2, 2>>}
StartPoints == {<<0, 1>>, <<1, 8>>, <<2, 1>>, <<3, 1>>, <<1000000, 1>>}
\* delta's default, 0.01
Deltas == {<<1, 100>>}

\* 2.0 - 2**-52, the float next below 2.0: a bracket end within an ulp of
\* the root of x**2 - 4
NearTwo == FSub(Two, FRound(1, <<1>>, -52))

\* 4e9, a starting point two doublings below the divergence threshold
NearLimit == FMul(FromInt(40000), FromInt(100000))

\* the arguments args with their numbers as floats
Floats(args) ==
    [k \in DOMAIN args |->
        IF k \in {"a", "b", "x0", "x1", "delta", "tol"} THEN Ratio(args[k][1], args[k][2])
        ELSE args[k]]

\* every call of the six methods over these numbers, on an object of class cls
Requests(cls) ==
    LET Common == [cls : {cls}, func_str : FuncTexts, tol : Tolerances, max_iter : 1..MaxIter]
    IN  {Floats([method |-> m, a |-> <<ab[1], 1>>, b |-> <<ab[2], 1>>] @@ c) :
            m \in {"bisection_method", "regula_falsi_method"}, ab \in Brackets, c \in Common}
        \cup {[a |-> NearTwo] @@ Floats([method |-> m, b |-> <<15, 4>>] @@ c) :
            m \in {"bisection_method", "regula_falsi_method"}, c \in Common}
        \cup {Floats([method |-> "regula_falsi_method", a |-> <<-2, 1>>, b |-> <<2, 1>>] @@ c) :
            c \in Common}
        \cup {Floats([method |-> "secant_method", x0 |-> <<xs[1], 1>>, x1 |-> <<xs[2], 1>>] @@ c) :
            xs \in StartPairs, c \in Common}
        \cup {[x0 |-> Ratio(-5, 2)] @@ Floats([method |-> "secant_method", x1 |-> <<1, 1>>] @@ c) :
            c \in Common}
        \cup {Floats([method |-> m, x0 |-> x0] @@ c) :
            m \in {"newton_raphson_method", "fixed_point_iteration"},
            x0 \in StartPoints, c \in Common}
        \cup {[x0 |-> NearLimit] @@ Floats([method |-> "fixed_point_iteration"] @@ c) :
            c \in Common}
        \cup {Floats([method |-> "modified_secant_method", x0 |-> x0, delta |-> d] @@ c) :
            x0 \in StartPoints, d \in Deltas, c \in Common}

Idle == [pc |-> "idle"]
NoRet == [kind |-> "none"]

\* ZOFSolver.__init__: self.iteration_data = []
Init ==
    /\ heap = << << >> >>
    /\ iteration_data = 1
    /\ frame = [p \in Procs |-> Idle]
    /\ ret = [p \in Procs |-> NoRet]

\* the caller invokes a method with arguments q, one of calls
Call(p, calls) ==
    /\ frame[p].pc = "idle"
    /\ \E q \in calls :
          frame' = [frame EXCEPT ![p] = [pc |-> "called", q |-> q, l |-> [i |-> 0],
                                         mine |-> << >>, passes |-> 0, from |-> "idle"]]
    /\ UNCHANGED <<heap, iteration_data, ret>>

\* What a stretch r of call p's code leaves behind, run on heap hp with
\* self.iteration_data = sd.  Kept beside the call's position for the
\* properties: mine, the records this call appended; passes, the loop passes
\* it entered; from, the position its last stretch started at.  A return
\* hands the caller the dict, whose iteration_data is the list itself; trace
\* is what that list held at that moment.
Effect(p, r, hp, sd) ==
    /\ iteration_data' = sd
    /\ heap' = IF r.t = "appends" THEN [hp EXCEPT ![sd] = Append(@, r.rec)] ELSE hp
    /\ frame' = [frame EXCEPT ![p] =
          LET f == [@ EXCEPT !.from = frame[p].pc,
                             !.passes = IF frame[p].pc = "head"
                                           /\ frame[p].l.i # frame[p].q.max_iter
                                        THEN @ + 1 ELSE @]
          IN  CASE r.t = "goes"    -> [f EXCEPT !.pc = "head", !.l = r.l]
                [] r.t = "appends" -> [f EXCEPT !.pc = "appended", !.l = r.l,
                                                  !.mine = Append(@, r.rec)]
                [] OTHER           -> [f EXCEPT !.pc = "done"]]
    /\ ret' = [ret EXCEPT ![p] =
          CASE r.t = "returns" ->
                 [kind |-> "returned", dict |-> r.dict,
                  trace |-> IF "iteration_data" \in DOMAIN r.dict
                            THEN hp[r.dict.iteration_data] ELSE << >>]
            [] r.t = "throws"  -> [kind |-> "raised", exc |-> r.exc]
            [] OTHER           -> @]

\* a method that appends to the list self.iteration_data already refers to,
\* without self.iteration_data = []
Step_without_reset(p) ==
    LET f      == frame[p]
        parsed == parse_function(f.q.func_str)
    IN  IF f.pc = "called" /\ ~parsed.ok
        THEN Effect(p, Throws(parsed.exc), heap, iteration_data)
        ELSE Effect(p, Code(f.q.method, f.pc, f.q, f.l, iteration_data),
                    heap, iteration_data)

\* a method that empties the list self.iteration_data refers to, with
\* self.iteration_data.clear(), instead of rebinding the attribute
Step_clearing_in_place(p) ==
    LET f      == frame[p]
        parsed == parse_function(f.q.func_str)
    IN  IF f.pc = "called" /\ ~parsed.ok
        THEN Effect(p, Throws(parsed.exc), heap, iteration_data)
        ELSE IF f.pc = "called"
        THEN Effect(p, Code(f.q.method, f.pc, f.q, f.l, iteration_data),
                    [heap EXCEPT ![iteration_data] = << >>], iteration_data)
        ELSE Effect(p, Code(f.q.method, f.pc, f.q, f.l, iteration_data),
                    heap, iteration_data)

\* One step of call p inside its method.  The first is func, expr =
\* self.parse_function(func_str), which may raise, then self.iteration_data
\* = [] and the code before the loop.
Step(p) ==
    LET f      == frame[p]
        parsed == parse_function(f.q.func_str)
    IN  IF f.pc = "called" /\ ~parsed.ok
        THEN Effect(p, Throws(parsed.exc), heap, iteration_data)
        ELSE IF f.pc = "called"
        THEN Effect(p, Code(f.q.method, f.pc, f.q, f.l, Len(heap) + 1),
                    Append(heap, << >>), Len(heap) + 1)
        ELSE Effect(p, Code(f.q.method, f.pc, f.q, f.l, iteration_data),
                    heap, iteration_data)

Running(p) == frame[p].pc \in {"called", "head", "appended"}

bisection_method(p) ==
    /\ Running(p) /\ frame[p].q.method = "bisection_method"
    /\ Step(p)

regula_falsi_method(p) ==
    /\ Running(p) /\ frame[p].q.method = "regula_falsi_method"
    /\ Step(p)

secant_method(p) ==
    /\ Running(p) /\ frame[p].q.method = "secant_method"
    /\ Step(p)

newton_raphson_method(p) ==
    /\ Running(p) /\ frame[p].q.method = "newton_raphson_method"
    /\ Step(p)

fixed_point_iteration(p) ==
    /\ Running(p) /\ frame[p].q.method = "fixed_point_iteration"
    /\ Step(p)

modified_secant_method(p) ==
    /\ Running(p) /\ frame[p].q.method = "modified_secant_method"
    /\ Step(p)

Method(p) ==
    \/ bisection_method(p)
    \/ regula_falsi_method(p)
    \/ secant_method(p)
    \/ newton_raphson_method(p)
    \/ fixed_point_iteration(p)
    \/ modified_secant_method(p)

\* One call of a method of ZOF_CLI.ZOFSolver on a new solver object.
Next ==
    \/ Call(1, Requests("ZOF_CLI"))
    \/ Method(1)

Spec == Init /\ [][Next]_vars


----------------------------------------------------------------------------
(* Calls with the default budget of passes.                                *)

\* max_iter: int = 100
DefaultMaxIter == 100

\* The calls of test_solver.py whose functions are among FuncTexts, and a
\* call of each of the two other methods, with tol = 1e-6, max_iter = 100.
DefaultRequests ==
    LET Common == [cls |-> "ZOF_CLI", tol |-> <<1, 1000000>>, max_iter |-> DefaultMaxIter]
    IN  {Floats([method |-> "bisection_method", func_str |-> "x**2 - 4",
                 a |-> <<0, 1>>, b |-> <<3, 1>>] @@ Common),
         Floats([method |-> "regula_falsi_method", func_str |-> "x**3 - 2*x - 5",
                 a |-> <<2, 1>>, b |-> <<3, 1>>] @@ Common),
         Floats([method |-> "secant_method", func_str |-> "x**2 - 4",
                 x0 |-> <<3, 1>>, x1 |-> <<2, 1>>] @@ Common),
         Floats([method |-> "newton_raphson_method", func_str |-> "x**2 - 4",
                 x0 |-> <<3, 1>>] @@ Common),
         Floats([method |-> "fixed_point_iteration", func_str |-> "1/x",
                 x0 |-> <<1, 8>>] @@ Common),
         Floats([method |-> "modified_secant_method", func_str |-> "x**2 - 4",
                 x0 |-> <<3, 1>>, delta |-> <<1, 100>>] @@ Common)}

NextDefault ==
    \/ Call(1, DefaultRequests)
    \/ Method(1)

SpecDefault == Init /\ [][NextDefault]_vars

----------------------------------------------------------------------------
(* Calls one after another on one solver object.                           *)

\* A few calls, one of each method and of each way a call ends.
SeqRequests ==
    LET Common == [cls |-> "ZOF_CLI", max_iter |-> MaxIter]
    IN  {Floats([method |-> "bisection_method", func_str |-> "x**2 - 4",
                 a |-> <<0, 1>>, b |-> <<3, 1>>, tol |-> <<1, 4>>] @@ Common),
         Floats([method |-> "bisection_method", func_str |-> "x**2 -",
                 a |-> <<0, 1>>, b |-> <<3, 1>>, tol |-> <<1, 4>>] @@ Common),
         Floats([method |-> "regula_falsi_method", func_str |-> "x**2 - 4",
                 a |-> <<3, 1>>, b |-> <<4, 1>>, tol |-> <<1, 4>>] @@ Common),
         Floats([method |-> "secant_method", func_str |-> "x**2 - 4",
                 x0 |-> <<-1, 1>>, x1 |-> <<1, 1>>, tol |-> <<1, 4>>] @@ Common),
         Floats([method |-> "newton_raphson_method", func_str |-> "x**2 - 4",
                 x0 |-> <<3, 1>>, tol |-> <<1, 1000000>>] @@ Common),
         Floats([method |-> "fixed_point_iteration", func_str |-> "1/x",
                 x0 |-> <<1, 8>>, tol |-> <<1, 4>>] @@ Common),
         Floats([method |-> "modified_secant_method", func_str |-> "x**3 - 2*x - 5",
                 x0 |-> <<2, 1>>, delta |-> <<1, 100>>, tol |-> <<1, 4>>] @@ Common)}

\* the p-th call is made once the call before it has come back
NextCall(p) ==
    /\ IF p = 1 THEN TRUE ELSE frame[p - 1].pc = "done"
    /\ Call(p, SeqRequests)

NextSeq == \E p \in Procs : NextCall(p) \/ Method(p)

SpecSeq == Init /\ [][NextSeq]_vars

----------------------------------------------------------------------------
(* The two copies of the class on the same inputs: call 1 is made on a     *)
(* ZOF_CLI.ZOFSolver and, once it has come back, call 2 with the same      *)
(* arguments on an app.ZOFSolver.  Each call binds a list of its own;      *)
(* iteration_data is the attribute of the object whose method is running.  *)

NextBoth ==
    \/ Call(1, Requests("ZOF_CLI"))
    \/ Method(1)
    \/ frame[1].pc = "done" /\ Call(2, {[frame[1].q EXCEPT !.cls = "app"]})
    \/ Method(2)

SpecBoth == Init /\ [][NextBoth]_vars

----------------------------------------------------------------------------
(* Two overlapping /solve requests on app.py's one solver object.          *)

Clients == {1, 2}

\* One request for each method, and one whose function text does not parse.
WebRequests ==
    LET Common == [cls |-> "app", max_iter |-> MaxIter, tol |-> <<1, 4>>]
    IN  {Floats([method |-> "bisection_method", func_str |-> "x**2 - 4",
                 a |-> <<0, 1>>, b |-> <<4, 1>>] @@ Common),
         Floats([method |-> "bisection_method", func_str |-> "x**2 -",
                 a |-> <<0, 1>>, b |-> <<4, 1>>] @@ Common),
         Floats([method |-> "regula_falsi_method", func_str |-> "2*x",
                 a |-> <<-1, 1>>, b |-> <<1, 1>>] @@ Common),
         Floats([method |-> "secant_method", func_str |-> "2*x",
                 x0 |-> <<0, 1>>, x1 |-> <<1, 1>>] @@ Common),
         Floats([method |-> "newton_raphson_method", func_str |-> "x**2 - 4",
                 x0 |-> <<2, 1>>] @@ Common),
         Floats([method |-> "fixed_point_iteration", func_str |-> "4",
                 x0 |-> <<3, 1>>] @@ Common),
         Floats([method |-> "modified_secant_method", func_str |-> "2*x",
                 x0 |-> <<2, 1>>, delta |-> <<1, 100>>] @@ Common)}

\* solve(), down to its call of the solver's method: the request's fields read
request(p) == Call(p, WebRequests)

\* solve(), from the method's return on: return jsonify(result), which
\* writes out the list result["iteration_data"] as it is then, or in the
\* except clause jsonify({"error": str(e)})
respond(p) ==
    /\ frame[p].pc = "done"
    /\ frame' = [frame EXCEPT ![p].pc = "responded"]
    /\ ret' = [ret EXCEPT ![p] =
          [json |-> IF @.kind = "raised" THEN [error |-> @.exc]
                    ELSE IF "iteration_data" \in DOMAIN @.dict
                    THEN [@.dict EXCEPT !.iteration_data = heap[@]]
                    ELSE @.dict] @@ @]
    /\ UNCHANGED <<heap, iteration_data>>

solve(p) == request(p) \/ Method(p) \/ respond(p)

NextWeb == \E p \in Clients : solve(p)

SpecWeb == Init /\ [][NextWeb]_vars
----------------------------------------------------------------------------
(* What a finished call handed back.                                       *)

Done(p) == frame[p].pc = "done"
Raised(p) == Done(p) /\ ret[p].kind = "raised"
Returned(p) == Done(p) /\ ret[p].kind = "returned"
\* a result with a root: converged, or the maximum-iterations warning
HasRoot(p) == Returned(p) /\ "root" \in DOMAIN ret[p].dict
Converged(p) == HasRoot(p) /\ "warning" \notin DOMAIN ret[p].dict
Warned(p) == HasRoot(p) /\ "warning" \in DOMAIN ret[p].dict
Failed(p, text) == Returned(p) /\ ret[p].dict = [error |-> text]
\* the returned iteration_data: the list the dict refers to
Trace(p) == heap[ret[p].dict.iteration_data]
\* the estimate a record holds, by method
Estimate(method, rec) ==
    CASE method \in {"bisection_method", "regula_falsi_method"} -> rec.c
      [] method = "secant_method" -> rec.x2
      [] method \in {"newton_raphson_method", "modified_secant_method"} -> rec.x_new
      [] method = "fixed_point_iteration" -> rec.g_x

----------------------------------------------------------------------------
(* C1 *)

\* C1: every call of any of the six methods that returns a result with a
\* root (converged or warning) returns an iteration_data whose length is the
\* returned iterations, and whose last record's error and estimate are the
\* returned final_error and root.
C1_TraceMatchesResult ==
    \A p \in Procs :
        HasRoot(p) =>
            LET d == ret[p].dict
                t == Trace(p)
            IN  /\ Len(t) = d.iterations
                /\ Len(t) > 0
                /\ t[Len(t)].error = d.final_error
                /\ Estimate(frame[p].q.method, t[Len(t)]) = d.root

\* a warning result of Newton-Raphson after more than one pass, where the
\* root is the method's x after the loop
C1_Witness ==
    /\ Warned(1)
    /\ frame[1].q.method = "newton_raphson_method"
    /\ ret[1].dict.iterations > 1
    /\ Len(Trace(1)) = ret[1].dict.iterations

----------------------------------------------------------------------------
(* C2 *)

\* C2: when two /solve requests overlap on the web application's solver,
\* however their steps interleave, the trace each invocation returns, and
\* the trace its response carries, is exactly the records that invocation
\* appended, in order, and none appended by the other.
C2_NoSharedTrace ==
    \A p \in Clients :
        /\ (Returned(p) /\ "iteration_data" \in DOMAIN ret[p].dict)
              => ret[p].trace = frame[p].mine
        /\ (frame[p].pc = "responded" /\ "iteration_data" \in DOMAIN ret[p].json)
              => ret[p].json.iteration_data = frame[p].mine

----------------------------------------------------------------------------
(* C3 *)

\* what the caller of a finished call p got: the exception, or the dict with
\* the records its iteration_data held
Outcome(p) ==
    IF ret[p].kind = "returned" /\ "iteration_data" \in DOMAIN ret[p].dict
    THEN [kind |-> "returned", dict |-> [ret[p].dict EXCEPT !.iteration_data = ret[p].trace]]
    ELSE IF ret[p].kind = "returned" THEN [kind |-> "returned", dict |-> ret[p].dict]
    ELSE ret[p]

\* C3: two calls of a method with identical inputs on one solver object
\* have identical outcomes, whatever calls were made on the object before
\* each of them.
C3_SameInputsSameOutcome ==
    \A p, r \in Procs :
        (Done(p) /\ Done(r) /\ frame[p].q = frame[r].q) => Outcome(p) = Outcome(r)

\* the first and the third call have the same inputs and returned records,
\* and the call between them was another one that left records of its own
C3_Witness ==
    /\ Done(1) /\ Done(2) /\ Done(3)
    /\ frame[1].q = frame[3].q /\ frame[2].q # frame[1].q
    /\ HasRoot(3) /\ Len(ret[3].trace) > 0
    /\ HasRoot(2) /\ Len(ret[2].trace) > 0

----------------------------------------------------------------------------
(* C4 *)

\* C4: every failure kind (parse failure, opposite-sign precondition,
\* near-zero denominator or derivative, divergence, iteration budget
\* exhausted) comes back in the returned outcome of the method called; no
\* call of a method ends by raising an exception to its caller.
C4_NoExceptionEscapes ==
    \A p \in Procs : Done(p) => ret[p].kind = "returned"

----------------------------------------------------------------------------
(* C5 *)

OppositeSigns == "Function must have opposite signs at endpoints"

\* f(a) * f(b) > 0 as the called method computes it; FALSE when the text
\* does not parse or f does not evaluate at an endpoint
SameSignEnds(q) ==
    LET fa == func(q.func_str, q.a)
        fb == func(q.func_str, q.b)
    IN  IF parse_function(q.func_str).ok /\ fa.ok /\ fb.ok
        THEN FGt(FMul(fa.v, fb.v), FZero) ELSE FALSE

Bracketing == {"bisection_method", "regula_falsi_method"}

\* C5: Bisection and Regula Falsi return the opposite-sign failure exactly
\* when f(a) * f(b) > 0 at the supplied endpoints, and then without having
\* entered a pass, appended a record or reported a root; when f(a) * f(b)
\* <= 0 that failure is never returned.
C5_OppositeSignFailure ==
    \A p \in Procs :
        (Done(p) /\ frame[p].q.method \in Bracketing) =>
            /\ Failed(p, OppositeSigns) <=> SameSignEnds(frame[p].q)
            /\ Failed(p, OppositeSigns) =>
                  /\ frame[p].passes = 0
                  /\ frame[p].mine = << >>
                  /\ heap[iteration_data] = << >>

\* Regula Falsi has returned the failure for endpoints where f is positive
C5_Witness ==
    /\ Failed(1, OppositeSigns)
    /\ frame[1].q.method = "regula_falsi_method"
    /\ SameSignEnds(frame[1].q)

----------------------------------------------------------------------------
(* C6 *)

\* a <= b and f(a) * f(b) < 0 for the call's endpoints
ValidBracket(q) ==
    LET fa == func(q.func_str, q.a)
        fb == func(q.func_str, q.b)
    IN  IF parse_function(q.func_str).ok /\ fa.ok /\ fb.ok
        THEN FLe(q.a, q.b) /\ FLt(FMul(fa.v, fb.v), FZero) ELSE FALSE

\* C6: in Bisection and Regula Falsi started on a bracket with a <= b and
\* f(a) * f(b) < 0, every recorded bracket [a_i, b_i] and estimate c_i, and
\* the returned root, lie in the original bracket: a <= a_i <= c_i <= b_i <= b.
C6_BracketContainment ==
    \A p \in Procs :
        (frame[p].pc # "idle" /\ frame[p].q.method \in Bracketing
            /\ ValidBracket(frame[p].q)) =>
            LET q == frame[p].q
            IN  /\ \A n \in DOMAIN frame[p].mine :
                      LET rec == frame[p].mine[n]
                      IN  /\ FLe(q.a, rec.a) /\ FLe(rec.a, rec.c)
                          /\ FLe(rec.c, rec.b) /\ FLe(rec.b, q.b)
                /\ HasRoot(p) => FLe(q.a, ret[p].dict.root) /\ FLe(ret[p].dict.root, q.b)

----------------------------------------------------------------------------
(* C7 *)

\* the new estimate of the pass whose locals are l
NewEstimate(method, l) ==
    CASE method \in Bracketing -> l.c
      [] method = "secant_method" -> l.x2
      [] OTHER -> l.x_new

\* |f(new estimate)| < tol or error < tol, for the pass whose locals are l
BelowTol(q, l) ==
    LET fv == func(q.func_str, NewEstimate(q.method, l))
    IN  (fv.ok /\ FLt(FAbs(fv.v), q.tol)) \/ FLt(l.error, q.tol)

\* call p has just come out of the rest of a pass after its append
Tested(p) == frame[p].pc \in {"head", "done"} /\ frame[p].from = "appended"

\* C7 as claimed: in all six methods a pass declares convergence exactly
\* when |f(new estimate)| < tol or the pass's error < tol, so the method
\* returns Converged on the first pass where that holds and on none before.
C7_ConvergenceDisjunction ==
    \A p \in Procs :
        Tested(p) => (Converged(p) <=> BelowTol(frame[p].q, frame[p].l))

\* C7 amended: Bisection, Regula Falsi, Secant, Newton-Raphson and Modified
\* Secant declare convergence on a pass exactly when |f(new estimate)| < tol
\* or the pass's error < tol; Fixed Point declares it exactly when the pass's
\* error < tol, whatever the function value.  (Newton-Raphson and Modified
\* Secant evaluate f at the new estimate for the test: where that raises,
\* the call raises.)
C7_ConvergenceTest ==
    \A p \in Procs :
        Tested(p) =>
            LET q == frame[p].q
                l == frame[p].l
            IN  IF q.method = "fixed_point_iteration"
                THEN Converged(p) <=> FLt(l.error, q.tol)
                ELSE IF q.method \in {"newton_raphson_method", "modified_secant_method"}
                        /\ ~func(q.func_str, l.x_new).ok
                THEN Raised(p)
                ELSE Converged(p) <=> BelowTol(q, l)

\* Fixed Point has gone on after a pass whose error was not below tol
\* though |g(new estimate)| was
C7_Witness ==
    /\ Tested(1) /\ ~Converged(1) /\ frame[1].pc = "head"
    /\ frame[1].q.method = "fixed_point_iteration"
    /\ BelowTol(frame[1].q, frame[1].l)

----------------------------------------------------------------------------
(* C8 *)

\* C8 as claimed: every method appends exactly one record per loop pass it
\* enters, the converging pass and a pass that ends the call with a failure
\* included: after k passes entered the trace holds exactly k records.
C8_OneRecordPerPass ==
    \A p \in Procs :
        frame[p].pc # "idle" => Len(frame[p].mine) = frame[p].passes

\* call p ended inside a pass before that pass's append: with a singularity
\* failure or an exception
EndedBeforeAppend(p) ==
    /\ Done(p) /\ frame[p].from = "head" /\ ~HasRoot(p)
    /\ frame[p].passes > 0

\* C8 amended: every method appends exactly one record per loop pass that
\* reaches its append, the converging pass and Fixed Point's diverging pass
\* included; a pass that ends the call before its append (the singularity
\* failure of Secant, Newton-Raphson and Modified Secant, or an exception
\* raised in the pass) appends none.  After k passes entered the trace
\* holds k records, or k - 1 when the k-th ended the call so.
C8_OneRecordPerCompletedPass ==
    \A p \in Procs :
        frame[p].pc # "idle" =>
            /\ Len(frame[p].mine) =
                  frame[p].passes - (IF EndedBeforeAppend(p) THEN 1 ELSE 0)
            /\ HasRoot(p) => Len(Trace(p)) = frame[p].passes

\* Secant entered a pass and ended in it with its singularity failure
C8_Witness ==
    /\ Failed(1, "Division by zero: f(x1) - f(x0) too small")
    /\ frame[1].passes = 1
    /\ frame[1].mine = << >>

----------------------------------------------------------------------------
(* C9 *)

MaxIterations == "Maximum iterations reached"

\* call p went through max_iter passes, each down to its append and on past
\* its test, and then left the loop
Exhausted(p) ==
    /\ Done(p) /\ frame[p].from = "head"
    /\ frame[p].passes = frame[p].q.max_iter
    /\ Len(frame[p].mine) = frame[p].q.max_iter

\* C9: when max_iter (>= 1) passes complete with no convergence and no
\* failure, the method returns a result, not an error, whose root is the
\* estimate of the last pass, whose iterations is max_iter, whose
\* final_error is the last pass's error, whose trace holds the max_iter
\* records of the call, and which carries the warning.
C9_MaxIterationsWarning ==
    \A p \in Procs :
        Exhausted(p) =>
            LET q    == frame[p].q
                last == frame[p].mine[q.max_iter]
            IN  /\ HasRoot(p)
                /\ "error" \notin DOMAIN ret[p].dict
                /\ ret[p].dict.root = Estimate(q.method, last)
                /\ ret[p].dict.iterations = q.max_iter
                /\ ret[p].dict.final_error = last.error
                /\ Trace(p) = frame[p].mine
                /\ Len(Trace(p)) = q.max_iter
                /\ "warning" \in DOMAIN ret[p].dict
                /\ ret[p].dict.warning = MaxIterations

\* Fixed Point has run out of MaxIter passes
C9_Witness ==
    /\ Exhausted(1)
    /\ frame[1].q.method = "fixed_point_iteration"
    /\ frame[1].q.max_iter = MaxIter
    /\ Warned(1)

----------------------------------------------------------------------------
(* C10 *)

\* the denominator or derivative the method tests on its first pass is
\* exactly 0; FALSE when f does not evaluate at the starting point(s)
ZeroAtStart(q) ==
    IF ~parse_function(q.func_str).ok THEN FALSE
    ELSE IF q.method = "secant_method"
    THEN LET f0 == func(q.func_str, q.x0)
             f1 == func(q.func_str, q.x1)
         IN  IF f0.ok /\ f1.ok THEN IsZero(FSub(f1.v, f0.v)) ELSE FALSE
    ELSE IF q.method = "newton_raphson_method"
    THEN LET fx  == func(q.func_str, q.x0)
             dfx == derivative(q.func_str, q.x0)
         IN  IF fx.ok /\ dfx.ok THEN IsZero(dfx.v) ELSE FALSE
    ELSE IF q.method = "modified_secant_method"
    THEN LET probe == IF ~IsZero(q.x0) THEN FAdd(q.x0, FMul(q.delta, q.x0))
                      ELSE FAdd(q.x0, q.delta)
             fx    == func(q.func_str, q.x0)
             fp    == func(q.func_str, probe)
         IN  IF fx.ok /\ fp.ok THEN IsZero(FSub(fp.v, fx.v)) ELSE FALSE
    ELSE FALSE

Singularity(method) ==
    CASE method = "secant_method" -> "Division by zero: f(x1) - f(x0) too small"
      [] method = "newton_raphson_method" -> "Derivative too small, division by zero"
      [] method = "modified_secant_method" -> "Division by zero: f(x + dx) - f(x) too small"

\* C10: Secant, Modified Secant and Newton-Raphson return their singularity
\* failure, with no record appended and no exception raised, whenever
\* f(x1) - f(x0), f(probe) - f(x0) or f'(x0) is exactly 0 at the supplied
\* starting point(s).
C10_SingularityAtStart ==
    \A p \in Procs :
        (Done(p) /\ ZeroAtStart(frame[p].q)) =>
            /\ Failed(p, Singularity(frame[p].q.method))
            /\ frame[p].mine = << >>
            /\ heap[iteration_data] = << >>

\* Newton-Raphson on x**2 - 4 from x0 = 0, where f'(0) = 0
C10_Witness ==
    /\ Done(1) /\ ZeroAtStart(frame[1].q)
    /\ frame[1].q.method = "newton_raphson_method"
    /\ frame[1].q.func_str = "x**2 - 4"
    /\ Failed(1, "Derivative too small, division by zero")
----------------------------------------------------------------------------
(* C11 *)

Diverging == "Method diverging, |x| > 10^10"

\* the iterates of Fixed Point on g grow without bound from x0: g(x) = 2x
\* from a non-zero x0
DivergentRun(q) ==
    /\ q.method = "fixed_point_iteration"
    /\ q.func_str = "2*x" /\ ~IsZero(q.x0)

\* the record's new iterate has magnitude above 1e10
Above(rec) == FGt(FAbs(rec.g_x), DivergeLimit)

----------------------------------------------------------------------------
(* C12 *)

\* the call with arguments q evaluates f at a point outside its real domain
\* (1/x at 0): at a starting parameter or, in Bisection, at the first
\* midpoint
EvaluatesOutside(q) ==
    LET Outside(x) == LET v == func(q.func_str, x)
                      IN  ~v.ok /\ v.exc = "ZeroDivisionError"
    IN  /\ parse_function(q.func_str).ok
        /\ CASE q.method \in Bracketing ->
                   \/ Outside(q.a) \/ Outside(q.b)
                   \/ q.method = "bisection_method" /\ Outside(FDiv(FAdd(q.a, q.b), Two))
             [] q.method = "secant_method" -> Outside(q.x0) \/ Outside(q.x1)
             [] OTHER -> Outside(q.x0)

\* C12: when the function is evaluated at a point outside its real domain,
\* at a starting parameter or at a later iterate, the method returns a
\* failure outcome; no exception leaves the call.
C12_DomainErrorReported ==
    \A p \in Procs :
        (Done(p) /\ EvaluatesOutside(frame[p].q)) =>
            /\ Returned(p)
            /\ "error" \in DOMAIN ret[p].dict

----------------------------------------------------------------------------
(* C13 *)

\* C13: every invocation of every method terminates: it enters at most
\* max_iter loop passes and ends by returning an outcome (converged, failure
\* or the maximum-iterations warning); no call runs past max_iter passes.
C13_TerminatesWithOutcome ==
    \A p \in Procs :
        frame[p].pc # "idle" =>
            /\ frame[p].passes <= frame[p].q.max_iter
            /\ frame[p].l.i <= frame[p].q.max_iter
            /\ Done(p) => \/ Converged(p)
                          \/ Warned(p)
                          \/ Returned(p) /\ DOMAIN ret[p].dict = {"error"}

----------------------------------------------------------------------------
(* C14 *)

\* the call bisection_method("x**2 - 4", 0, 3, tol=1e-6, max_iter=100)
BisectionExample(q) ==
    /\ q.method = "bisection_method" /\ q.func_str = "x**2 - 4"
    /\ q.a = FromInt(0) /\ q.b = FromInt(3)
    /\ q.tol = Ratio(1, 1000000) /\ q.max_iter = DefaultMaxIter

\* C14: Bisection on x**2 - 4 over [0, 3] with tol 1e-6 and max_iter 100
\* returns a Converged result, with no error and no warning, whose root is
\* within 0.01 of 2.0, in fewer than 25 iterations.
C14_BisectionConverges ==
    \A p \in Procs :
        (Done(p) /\ BisectionExample(frame[p].q)) =>
            /\ Converged(p)
            /\ "error" \notin DOMAIN ret[p].dict
            /\ FLt(FAbs(FSub(ret[p].dict.root, FromInt(2))), Ratio(1, 100))
            /\ ret[p].dict.iterations < 25
            /\ Len(Trace(p)) < 25

\* the call has converged, on pass 22
C14_Witness ==
    /\ Done(1) /\ BisectionExample(frame[1].q)
    /\ Converged(1)
    /\ ret[1].dict.iterations = 22


----------------------------------------------------------------------------
(* C15 *)

\* C15: in Bisection and Regula Falsi, whenever the starting check passes
\* (f(a)*f(b) is not > 0), the endpoints at the start of every loop pass
\* satisfy f(a_i)*f(b_i) <= 0; the replacement keeps [a, c] when
\* f(a)*f(c) < 0 and [c, b] otherwise.
C15_BracketKeepsSignChange ==
    \A p \in Procs :
        (/\ frame[p].pc = "head" /\ frame[p].q.method \in Bracketing
         /\ frame[p].l.i < frame[p].q.max_iter) =>
            LET q  == frame[p].q
                l  == frame[p].l
                fa == func(q.func_str, l.a).v
                fb == func(q.func_str, l.b).v
            IN  /\ FLe(FMul(fa, fb), FZero)
                /\ Tested(p) =>
                      LET rec == frame[p].mine[Len(frame[p].mine)]
                      IN  IF FLt(FMul(func(q.func_str, rec.a).v, rec.f_c), FZero)
                          THEN l.a = rec.a /\ l.b = rec.c
                          ELSE l.a = rec.c /\ l.b = rec.b
----------------------------------------------------------------------------
(* C16 *)

\* the denominator of the pass over locals l evaluates and has magnitude
\* below 1e-12: f(x1) - f(x0), f'(x) or f(probe) - f(x)
TooSmall(q, l) ==
    CASE q.method = "secant_method" -> FLt(FAbs(FSub(l.f1, l.f0)), SingularEps)
      [] q.method = "newton_raphson_method" ->
            LET fx  == func(q.func_str, l.x)
                dfx == derivative(q.func_str, l.x)
            IN  IF fx.ok /\ dfx.ok THEN FLt(FAbs(dfx.v), SingularEps) ELSE FALSE
      [] q.method = "modified_secant_method" ->
            LET probe == IF ~IsZero(l.x) THEN FAdd(l.x, FMul(q.delta, l.x))
                         ELSE FAdd(l.x, q.delta)
                fx    == func(q.func_str, l.x)
                fp    == func(q.func_str, probe)
            IN  IF fx.ok /\ fp.ok THEN FLt(FAbs(FSub(fp.v, fx.v)), SingularEps) ELSE FALSE

\* C16: in Secant, Newton-Raphson and Modified Secant every loop pass, the
\* first and the later ones, divides only after its denominator has been
\* found to have magnitude >= 1e-12: a pass that reaches its append had
\* such a denominator, and a pass whose denominator magnitude is below
\* 1e-12 ends the call with the singularity failure and no new record.
\* The singularity failure is returned in no other case.
C16_DenominatorChecked ==
    \A p \in Procs :
        (/\ frame[p].pc # "idle"
         /\ frame[p].q.method \in {"secant_method", "newton_raphson_method",
                                    "modified_secant_method"}) =>
            LET q == frame[p].q
                l == frame[p].l
                InPass == Done(p) /\ frame[p].from = "head" /\ l.i = frame[p].passes - 1
            IN  /\ frame[p].pc = "appended" => ~TooSmall(q, l)
                /\ (InPass /\ TooSmall(q, l)) =>
                       /\ Failed(p, Singularity(q.method))
                       /\ Len(frame[p].mine) = l.i
                /\ Failed(p, Singularity(q.method)) => InPass /\ TooSmall(q, l)

\* Secant on x**2 - 4 from -2.5 and 1: pass 1 gives x2 = -1 with
\* f(-1) = f(1), and pass 2 ends with the singularity failure
C16_Witness ==
    /\ Failed(1, Singularity("secant_method"))
    /\ frame[1].q.method = "secant_method"
    /\ frame[1].passes = 2
    /\ Len(frame[1].mine) = 1
    /\ TooSmall(frame[1].q, frame[1].l)

----------------------------------------------------------------------------
(* C17 *)

\* C17: in Regula Falsi the error recorded on iteration 1 is |b - a| of the
\* starting bracket, and on every iteration i > 1 it is |c_i - c_(i-1)|,
\* the distance between this pass's estimate and the previous pass's.
C17_RegulaFalsiError ==
    \A p \in Procs :
        (frame[p].pc # "idle" /\ frame[p].q.method = "regula_falsi_method") =>
            LET q    == frame[p].q
                mine == frame[p].mine
            IN  \A k \in 1..Len(mine) :
                    /\ mine[k].iteration = k
                    /\ mine[k].error =
                          IF k = 1 THEN FAbs(FSub(q.b, q.a))
                          ELSE FAbs(FSub(mine[k].c, mine[k - 1].c))

\* Regula Falsi on x**3 - 2*x - 5 over [2, 3] has recorded 1 = |3 - 2| on
\* pass 1 and |c_2 - c_1|, which is not the width of its bracket, on pass 2
C17_Witness ==
    /\ frame[1].pc = "appended" /\ frame[1].q.method = "regula_falsi_method"
    /\ frame[1].q.func_str = "x**3 - 2*x - 5"
    /\ Len(frame[1].mine) = 2
    /\ frame[1].mine[1].error = FromInt(1)
    /\ frame[1].mine[2].error = FAbs(FSub(frame[1].mine[2].c, frame[1].mine[1].c))
    /\ frame[1].mine[2].error # FAbs(FSub(frame[1].mine[2].b, frame[1].mine[2].a))

----------------------------------------------------------------------------
(* C18 *)

\* C18: on every Modified Secant pass the probe point and the step
\* numerator use one perturbation p, delta * x when the pass's x is not 0
\* and delta when it is: the record holds f(x + p) and
\* x_new = x - f(x) * p / (f(x + p) - f(x)), and a pass at x = 0 probes at
\* delta, not at x itself (delta being a perturbation, not 0).
C18_OnePerturbation ==
    \A p \in Procs :
        (frame[p].pc # "idle" /\ frame[p].q.method = "modified_secant_method") =>
            LET q    == frame[p].q
                mine == frame[p].mine
            IN  \A k \in 1..Len(mine) :
                    LET x     == mine[k].x
                        pert  == IF ~IsZero(x) THEN FMul(q.delta, x) ELSE q.delta
                        probe == FAdd(x, pert)
                        fx    == func(q.func_str, x).v
                        fp    == func(q.func_str, probe).v
                    IN  /\ mine[k].f_x = fx
                        /\ mine[k].f_x_dx = fp
                        /\ mine[k].x_new = FSub(x, FDiv(FMul(fx, pert), FSub(fp, fx)))
                        /\ IsZero(x) => probe = q.delta /\ probe # x
                        /\ k > 1 => x = mine[k - 1].x_new

\* Modified Secant on x**2 - 4 from x0 = 0 has probed at delta and stepped
\* away from 0
C18_Witness ==
    /\ frame[1].pc = "appended" /\ frame[1].q.method = "modified_secant_method"
    /\ frame[1].q.func_str = "x**2 - 4"
    /\ IsZero(frame[1].mine[1].x)
    /\ frame[1].mine[1].f_x_dx = func("x**2 - 4", frame[1].q.delta).v
    /\ ~IsZero(frame[1].mine[1].x_new)

----------------------------------------------------------------------------
(* C19 *)

\* C19: a result returned by an earlier call is not changed by any later
\* call on the same solver object: the list its iteration_data refers to
\* holds, after any calls made since, the records it held when the result
\* was returned, and the list of no other result.
C19_ReturnedTraceKept ==
    \A p \in Procs :
        HasRoot(p) =>
            /\ Trace(p) = ret[p].trace
            /\ Len(Trace(p)) = ret[p].dict.iterations
            /\ \A r \in Procs \ {p} :
                   HasRoot(r) => ret[r].dict.iteration_data # ret[p].dict.iteration_data

\* the first call returned records, and the two calls after it have
\* returned records of their own since
C19_Witness ==
    /\ HasRoot(1) /\ HasRoot(2) /\ HasRoot(3)
    /\ Len(ret[1].trace) > 0 /\ Len(ret[2].trace) > 0 /\ Len(ret[3].trace) > 0
    /\ Trace(1) = ret[1].trace
    /\ Trace(2) # Trace(1)

----------------------------------------------------------------------------
(* C20 *)

\* C20: on identical inputs ZOF_CLI.ZOFSolver (call 1) and app.ZOFSolver
\* (call 2) make the same control decisions: they end the same way
\* (converged, warning, the same error, the same exception) after the same
\* number of passes and records, with the same unrounded locals; app.py
\* differs only in reporting round(v, 10) and f"{error:.6e}".
C20_SameDecisions ==
    (frame[1].pc = "done" /\ frame[2].pc = "done") =>
        /\ frame[2].q = [frame[1].q EXCEPT !.cls = "app"]
        /\ ret[1].kind = ret[2].kind
        /\ Raised(1) => ret[2].exc = ret[1].exc
        /\ Returned(1) => DOMAIN ret[2].dict = DOMAIN ret[1].dict
        /\ (Returned(1) /\ ~HasRoot(1)) => ret[2].dict = ret[1].dict
        /\ HasRoot(1) =>
              /\ ret[2].dict.iterations = ret[1].dict.iterations
              /\ ret[2].dict.method = ret[1].dict.method
              /\ Warned(1) <=> Warned(2)
              /\ ret[2].dict.root = round(ret[1].dict.root, 10)
              /\ ret[2].dict.final_error = format_e(ret[1].dict.final_error, 6)
              /\ Len(ret[2].trace) = Len(ret[1].trace)
        /\ frame[2].passes = frame[1].passes
        /\ frame[2].from = frame[1].from
        /\ frame[2].l = frame[1].l

\* both copies have converged on pass 2, and app.py reports the root
\* rounded
C20_Witness ==
    /\ Converged(1) /\ Converged(2)
    /\ ret[1].dict.iterations = 2 /\ ret[2].dict.iterations = 2
    /\ ret[2].dict.root # ret[1].dict.root
    /\ ret[2].dict.root = round(ret[1].dict.root, 10)

----------------------------------------------------------------------------
(* C21 *)

\* C21: in Regula Falsi, whenever the starting check passes (f(a)*f(b) is
\* not > 0), the denominator f(b) - f(a) of the update is non-zero at the
\* start of every loop pass, also when an endpoint is itself a root, and no
\* call ends in a division by zero.
C21_DenominatorNonZero ==
    \A p \in Procs :
        (frame[p].pc # "idle" /\ frame[p].q.method = "regula_falsi_method") =>
            /\ (frame[p].pc = "head" /\ frame[p].l.i < frame[p].q.max_iter) =>
                   ~IsZero(FSub(frame[p].l.fb, frame[p].l.fa))
            /\ ~(Raised(p) /\ ret[p].exc = "ZeroDivisionError"
                            /\ frame[p].q.func_str # "1/x")

====
